---------------------------- MODULE Spec2Model ----------------------------
(***************************************************************************)
(* Model of src/utils.py: trend_score and mean_rev_score.                  *)
(*                                                                         *)
(* A caller holds a list x (numbers and NaN markers) and calls the two     *)
(* functions on it.  Numbers are integers here, and every intermediate     *)
(* quantity of the source (x_m, t_m, numr, deno, rho, qv, x_s) is kept as  *)
(* an exact fraction of integers, so the final rounding is decided         *)
(* exactly.  A call either returns an integer or raises the exception the  *)
(* Python arithmetic raises at the first line that fails.                  *)
(***************************************************************************)
EXTENDS Integers, Sequences, FiniteSets

\* ------------------------------------------------------------------ bounds
MaxLen == 3     \* longest enumerated input list
MaxVal == 2     \* enumerated values are 0..MaxVal
MaxBeta == 1    \* enumerated beta are 0..MaxBeta and the default

\* The default exponents of the two signatures.
DefaultAlpha == 3
DefaultBeta == 15

\* ------------------------------------------------------------- list values
\* An entry of the input list: a number, or float('nan').
NaN == [nan |-> TRUE, v |-> 0]
Num(n) == [nan |-> FALSE, v |-> n]
Values == {Num(n) : n \in 0..MaxVal} \cup {NaN}

isnan(e) == e.nan

Nums(s) == [i \in 1..Len(s) |-> Num(s[i])]

\* The inputs of the doctests.
DocSeries ==
  { Nums(<<1, 2, 3, 4, 5, 6>>),
    Nums(<<6, 5, 4, 3, 2, 1>>),
    Nums(<<-1, 1, -1, 1, -1, 1, -1>>),
    Nums(<<1, 3, 2, 4, 3, 5>>),
    Nums(<<-1, 1, -1, 1, -1>>) }

Series == UNION {[1..n -> Values] : n \in 0..MaxLen} \cup DocSeries

Alphas == 1..DefaultAlpha
Betas == (0..MaxBeta) \cup {DefaultBeta}

\* ------------------------------------------------------------ call results
NoExc == "returned"
Return(z) == [exc |-> NoExc, val |-> z]
Raise(e) == [exc |-> e, val |-> 0]
Returned(r) == r.exc = NoExc

\* -------------------------------------------------------------- arithmetic
RECURSIVE sum(_)
sum(s) == IF s = <<>> THEN 0 ELSE Head(s) + sum(Tail(s))

RECURSIVE GCD(_, _)
GCD(a, b) == IF b = 0 THEN a ELSE GCD(b, a % b)

Abs(a) == IF a < 0 THEN -a ELSE a

sign(a) == IF a > 0 THEN 1 ELSE IF a < 0 THEN -1 ELSE 0

RECURSIVE Pow(_, _)
Pow(b, e) == IF e = 0 THEN 1 ELSE b * Pow(b, e - 1)

\* The fraction num/den (den > 0) in lowest terms.
Frac(num, den) ==
  LET g == GCD(Abs(num), den) IN [num |-> num \div g, den |-> den \div g]

\* a/b <= c/d for naturals a, c and positive b, d, by comparing integer parts
\* and then the inverted remainders, so that no product is formed.
RECURSIVE Leq(_, _, _, _)
Leq(a, b, c, d) ==
  IF a \div b # c \div d THEN a \div b < c \div d
  ELSE IF a % b = 0 THEN TRUE
  ELSE IF c % d = 0 THEN FALSE
  ELSE Leq(d, c % d, b, a % b)

\* ---------------------------------------------------------------- rounding
\* Variant: the tie goes away from zero.
TieAwayFromZero(k) == k

\* round() of a value lying exactly halfway, k - 1/2 with k >= 1: Python's
\* round and NumPy's round both take the even neighbour.
TieToEven(k) == IF k % 2 = 0 THEN k ELSE k - 1

\* Variant: NaN entries are replaced by 0 instead of being dropped.
DropNaNToZero(s) == [i \in 1..Len(s) |-> IF isnan(s[i]) THEN 0 ELSE s[i].v]

\* x = [v for v in x if not np.isnan(v)]: the numbers, in their order.
DropNaN(s) ==
  LET kept == SelectSeq(s, LAMBDA e : ~isnan(e))
  IN [i \in 1..Len(kept) |-> kept[i].v]

\* ------------------------------------------------------------- trend_score
\* n * (x[i] - x_m), with x_m = sum(x)/float(n).
devX(x, i) == Len(x) * x[i] - sum(x)

\* Variant: the 0-based index i is taken for the position, without the +1.
devTZeroBased(n, i) == 2 * (i - 1) - (1 + n)

\* 2 * (i - t_m) for the position i in 1..n (the source's i+1), t_m = (1+n)/2.0.
devT(n, i) == 2 * i - (1 + n)

\* numr, scaled by 2n.
numr(x) == sum([i \in 1..Len(x) |-> devX(x, i) * devT(Len(x), i)])

\* sum([(x[i]-x_m)**2 for i in range(n)]), scaled by n^2.
sumSqX(x) == sum([i \in 1..Len(x) |-> devX(x, i) * devX(x, i)])

\* Variant: the sum stops one position short, range(n-1).
sumSqTShort(n) == sum([i \in 1..(n - 1) |-> devT(n, i) * devT(n, i)])

\* sum([(i+1-t_m)**2 for i in range(n)]), scaled by 4.
sumSqT(n) == sum([i \in 1..n |-> devT(n, i) * devT(n, i)])

\* deno squared, scaled by (2n)^2.
deno2(x) == sumSqX(x) * sumSqT(Len(x))

\* rho squared, as a fraction in lowest terms (deno2(x) > 0).
rho2(x) == Frac(numr(x) * numr(x), deno2(x))

\* 100 * |rho|**alpha >= k - 1/2, for rho^(2 alpha) = pa/qa and k >= 1:
\* (2k-1)^2 / 200^2 <= pa/qa.
AtLeast(k, pa, qa) == Leq((2 * k - 1) * (2 * k - 1), 40000, pa, qa)

\* 100 * |rho|**alpha = k - 1/2 exactly.
Halfway(k, pa, qa) ==
  /\ k >= 1
  /\ AtLeast(k, pa, qa)
  /\ Leq(pa, qa, (2 * k - 1) * (2 * k - 1), 40000)

\* The first power of two k (from k on) with 100 * |rho|**alpha < k - 1/2.
RECURSIVE FirstBelow(_, _, _)
FirstBelow(k, pa, qa) ==
  IF AtLeast(k, pa, qa) THEN FirstBelow(2 * k, pa, qa) ELSE k

\* The largest k in lo..hi-1 with 100 * |rho|**alpha >= k - 1/2, given that
\* lo is such a k (or 0) and hi is not.
RECURSIVE LastAtLeast(_, _, _, _)
LastAtLeast(lo, hi, pa, qa) ==
  IF hi = lo + 1 THEN lo
  ELSE LET mid == (lo + hi) \div 2
       IN IF AtLeast(mid, pa, qa) THEN LastAtLeast(mid, hi, pa, qa)
          ELSE LastAtLeast(lo, mid, pa, qa)

\* round(100 * abs(rho)**alpha, 0) for rho squared r2: the nearest integer,
\* the even one at a tie.
roundPow(r2, alpha) ==
  LET pa == Pow(r2.num, alpha)
      qa == Pow(r2.den, alpha)
      k == LastAtLeast(0, FirstBelow(1, pa, qa), pa, qa)
  IN IF Halfway(k, pa, qa) THEN TieToEven(k) ELSE k

\* Variant: the magnitude alone, np.sign(rho) left out.
trend_scoreUnsigned(s, alpha) ==
  LET x == DropNaN(s)
      n == Len(x)
  IN IF n = 0 THEN Raise("ZeroDivisionError")
     ELSE IF deno2(x) = 0 THEN Raise("ValueError")
     ELSE Return(roundPow(rho2(x), alpha))

\* Variant: rho**alpha, the sign raised to the power with the magnitude.
trend_scoreRawPower(s, alpha) ==
  LET x == DropNaN(s)
      n == Len(x)
  IN IF n = 0 THEN Raise("ZeroDivisionError")
     ELSE IF deno2(x) = 0 THEN Raise("ValueError")
     ELSE Return(Pow(sign(numr(x)), alpha) * roundPow(rho2(x), alpha))

\* trend_score(x, alpha).  sum(x)/float(n) raises ZeroDivisionError for the
\* empty list; a zero deno makes rho NaN (NumPy warns and goes on), which
\* int() refuses with ValueError.
trend_score(s, alpha) ==
  LET x == DropNaN(s)
      n == Len(x)
  IN IF n = 0 THEN Raise("ZeroDivisionError")
     ELSE IF deno2(x) = 0 THEN Raise("ValueError")
     ELSE Return(sign(numr(x)) * roundPow(rho2(x), alpha))

\* ---------------------------------------------------------- mean_rev_score
\* Variant: the differences are summed without being squared.
qvNoSquare(x) == sum([i \in 1..(Len(x) - 1) |-> x[i + 1] - x[i]])

\* qv = sum([(x[i]-x[i-1])**2 for i in range(1,n)]).
qv(x) == sum([i \in 1..(Len(x) - 1) |-> (x[i + 1] - x[i]) * (x[i + 1] - x[i])])

\* Variant: the variance divides by n, not by n-1.
exponentPopulation(x, beta) ==
  Frac(beta * sumSqX(x) * sign(qv(x)),
       Len(x) * Len(x) * Len(x) * Abs(qv(x)))

\* beta*x_s/qv as a fraction in lowest terms, x_s = sumSqX / (n^2 * (n-1)).
\* The exponent of the source is its negation.
exponent(x, beta) ==
  Frac(beta * sumSqX(x) * sign(qv(x)),
       Len(x) * Len(x) * (Len(x) - 1) * Abs(qv(x)))

\* floor(10^6 * log2(200 / (2k-1))) for k = 1..101:
\* 100 * 2**(-e) >= k - 1/2 exactly when e <= log2(200 / (2k-1)).
Log2Thresholds ==
  << 7643856, 6058893, 5321928, 4836501, 4473931, 4184424, 3943416, 3736965,
     3556393, 3395928, 3251538, 3120294, 3000000, 2888968, 2785875, 2689659,
     2599462, 2514573, 2434402, 2358453, 2286304, 2217591, 2152003, 2089267,
     2029146, 1971430, 1915935, 1862496, 1810966, 1761213, 1713118, 1666576,
     1621488, 1577766, 1535331, 1494109, 1454031, 1415037, 1377069, 1340075,
     1304006, 1268816, 1234465, 1200912, 1168122, 1136061, 1104697, 1074000,
     1043943, 1014499, 985644, 957355, 929610, 902389, 875671, 849440,
     823677, 798366, 773491, 749038, 724992, 701341, 678071, 655171,
     632628, 610433, 588573, 567040, 545824, 524915, 504304, 483984,
     463947, 444183, 424687, 405451, 386468, 367731, 349235, 330973,
     312939, 295128, 277533, 260151, 242976, 226003, 209227, 192645,
     176250, 160040, 144010, 128156, 112474, 96961, 81613, 66427,
     51399, 36525, 21804, 7231, -7196 >>

\* floor(10^6 * e) for the fraction e, formed without overflow.
micro(e) ==
  (e.num \div e.den) * 1000000 + ((e.num % e.den) * 1000000) \div e.den

\* 100 * 2**(-e) = k - 1/2 exactly: 2**(-e) is rational only for an integer
\* e, and then 200 = (2k-1) * 2^e.
HalfwayPow2(k, e) ==
  /\ k >= 1
  /\ e.den = 1
  /\ e.num \in 0..7
  /\ 200 = (2 * k - 1) * Pow(2, e.num)

\* round(100 * 2**(-e)) for the fraction e: the nearest integer, the even
\* one at a tie.  Below 0.5 (e > 8) the result is 0; a value of 100.5 or
\* more is reported as 101, the end of the table.
roundPow2(e) ==
  IF e.num > 8 * e.den THEN 0
  ELSE IF e.num < -e.den THEN Len(Log2Thresholds)
  ELSE LET k == Cardinality({j \in 1..Len(Log2Thresholds) :
                               micro(e) <= Log2Thresholds[j]})
       IN IF HalfwayPow2(k, e) THEN TieToEven(k) ELSE k

\* mean_rev_score(x, beta).  Python's float division raises
\* ZeroDivisionError for sum(x)/float(0), for the variance's n-1 = 0, and
\* for a zero qv.
mean_rev_score(s, beta) ==
  LET x == DropNaN(s)
      n == Len(x)
  IN IF n = 0 THEN Raise("ZeroDivisionError")
     ELSE IF n - 1 = 0 THEN Raise("ZeroDivisionError")
     ELSE IF qv(x) = 0 THEN Raise("ZeroDivisionError")
     ELSE Return(roundPow2(exponent(x, beta)))

\* ------------------------------------------------------------------- state
VARIABLES
  x,      \* the caller's list
  last,   \* the latest call: function, exponent argument, result
  prev    \* the call before it

vars == <<x, last, prev>>

NoCall == [fn |-> "none", arg |-> 0, ret |-> Raise("no call")]

Init ==
  /\ x \in Series
  /\ last = NoCall
  /\ prev = NoCall

\* Variant: the filter is written back into the caller's list, x[:] = ...
ListFilteredInPlace(s) == SelectSeq(s, LAMBDA e : ~isnan(e))

\* Both functions rebind their local name x to the filtered copy; the
\* caller's list object is not written.
ListAfterCall(s) == s

TrendScore(alpha) ==
  /\ x' = ListAfterCall(x)
  /\ last' = [fn |-> "trend_score", arg |-> alpha, ret |-> trend_score(x, alpha)]
  /\ prev' = last

MeanRevScore(beta) ==
  /\ x' = ListAfterCall(x)
  /\ last' = [fn |-> "mean_rev_score", arg |-> beta,
              ret |-> mean_rev_score(x, beta)]
  /\ prev' = last

Next ==
  \/ \E alpha \in Alphas : TrendScore(alpha)
  \/ \E beta \in Betas : MeanRevScore(beta)

Spec == Init /\ [][Next]_vars

\* ------------------------------------------------- what the claims speak of
\* The list with its NaN entries deleted, the other entries in their order.
RECURSIVE Compacted(_)
Compacted(s) ==
  IF s = <<>> THEN <<>>
  ELSE IF Head(s).nan THEN Compacted(Tail(s))
  ELSE <<Head(s)>> \o Compacted(Tail(s))

\* The numbers of the caller's list.
numbers == [i \in 1..Len(Compacted(x)) |-> Compacted(x)[i].v]

\* At least two numbers, not all identical.
Valid ==
  /\ Len(numbers) >= 2
  /\ \E i, j \in 1..Len(numbers) : numbers[i] # numbers[j]

HasNaN == \E i \in 1..Len(x) : x[i].nan

IsTrend(c) == c.fn = "trend_score"
IsMeanRev(c) == c.fn = "mean_rev_score"

\* C1: on a valid series trend_score returns an integer in [-100, 100].
C1_TrendRange ==
  (IsTrend(last) /\ Valid) =>
    (Returned(last.ret) /\ last.ret.val \in -100..100)

\* The lower end of the range, returned for two alphas on a list that holds
\* NaN entries.
C1_Witness ==
  /\ Valid
  /\ HasNaN
  /\ IsTrend(prev) /\ Returned(prev.ret) /\ prev.ret.val = -100
  /\ IsTrend(last) /\ Returned(last.ret) /\ last.ret.val = -100
  /\ prev.arg # last.arg

\* C2: on a valid series and beta >= 0 mean_rev_score returns an integer in
\* [0, 100], the exponent -beta*x_s/qv being never positive.
C2_MeanRevRange ==
  (IsMeanRev(last) /\ Valid) =>
    /\ Returned(last.ret)
    /\ last.ret.val \in 0..100
    /\ exponent(numbers, last.arg).num >= 0

\* Both ends of the range are returned: 0 with the default beta after 100.
C2_Witness ==
  /\ Valid
  /\ IsMeanRev(prev) /\ Returned(prev.ret) /\ prev.ret.val = 100
  /\ IsMeanRev(last) /\ Returned(last.ret) /\ last.ret.val = 0
  /\ last.arg = DefaultBeta

\* Pearson's correlation of the numbers with their positions 1..n, squared,
\* from the raw moments: cov^2 / (var_x * var_t), each scaled by n^2.
PearsonCov ==
  Len(numbers) * sum([i \in 1..Len(numbers) |-> i * numbers[i]])
    - sum([i \in 1..Len(numbers) |-> i]) * sum(numbers)

PearsonVarX ==
  Len(numbers) * sum([i \in 1..Len(numbers) |-> numbers[i] * numbers[i]])
    - sum(numbers) * sum(numbers)

PearsonVarT ==
  Len(numbers) * sum([i \in 1..Len(numbers) |-> i * i])
    - sum([i \in 1..Len(numbers) |-> i]) * sum([i \in 1..Len(numbers) |-> i])

PearsonSquared == Frac(PearsonCov * PearsonCov, PearsonVarX * PearsonVarT)

\* |100 * |rho|^alpha - k| <= 1/2 for Pearson's rho.
NearestToTrend(k, alpha) ==
  LET pa == Pow(PearsonSquared.num, alpha)
      qa == Pow(PearsonSquared.den, alpha)
  IN /\ k = 0 \/ Leq((2 * k - 1) * (2 * k - 1), 40000, pa, qa)
     /\ Leq(pa, qa, (2 * k + 1) * (2 * k + 1), 40000)

DocZigZag == Nums(<<1, 3, 2, 4, 3, 5>>)

\* C3: on a valid series trend_score is round(100 * sign(rho) * |rho|^alpha)
\* for Pearson's rho of values against positions 1..n; [1,3,2,4,3,5] gives
\* 57 (alpha 3) and 83 (alpha 1), [-1,1,-1,1,-1,1,-1] gives 0.
C3_TrendFormula ==
  (IsTrend(last) /\ Valid) =>
    /\ Returned(last.ret)
    /\ NearestToTrend(Abs(last.ret.val), last.arg)
    /\ last.ret.val # 0 => sign(last.ret.val) = sign(PearsonCov)
    /\ (x = DocZigZag /\ last.arg = 3) => last.ret.val = 57
    /\ (x = DocZigZag /\ last.arg = 1) => last.ret.val = 83
    /\ x = Nums(<<-1, 1, -1, 1, -1, 1, -1>>) => last.ret.val = 0

\* The doctest series scored with alpha 3 and then with alpha 1.
C3_Witness ==
  /\ x = DocZigZag
  /\ IsTrend(prev) /\ prev.arg = 3 /\ prev.ret = Return(57)
  /\ IsTrend(last) /\ last.arg = 1 /\ last.ret = Return(83)

\* qv from the raw products.
RawQv ==
  sum([i \in 1..(Len(numbers) - 1) |->
         numbers[i + 1] * numbers[i + 1] + numbers[i] * numbers[i]
           - 2 * numbers[i + 1] * numbers[i]])

\* beta * x_s / qv with the Bessel-corrected variance from the raw moments,
\* x_s = (sum of squares - (sum)^2 / n) / (n - 1).
RawExponent(beta) ==
  Frac(beta * PearsonVarX, Len(numbers) * (Len(numbers) - 1) * RawQv)

\* |100 * 2^(-e) - k| <= 1/2, in the millionths of the threshold table.
NearestToPow2(k, e) ==
  /\ k \in 0..(Len(Log2Thresholds) - 1)
  /\ k = 0 \/ micro(e) <= Log2Thresholds[k]
  /\ micro(e) >= Log2Thresholds[k + 1]

OnLine ==
  /\ Len(numbers) >= 2
  /\ numbers[2] # numbers[1]
  /\ \A i \in 2..Len(numbers) :
       numbers[i] - numbers[i - 1] = numbers[2] - numbers[1]

\* C5: on a non-horizontal line of any length >= 2 trend_score returns 100
\* when increasing and -100 when decreasing, for every alpha.
C5_LineExtremes ==
  (IsTrend(last) /\ OnLine) =>
    last.ret = Return(100 * sign(numbers[2] - numbers[1]))

\* The two-element decreasing case, then a call with another alpha.
C5_Witness ==
  /\ OnLine
  /\ Len(numbers) = 2
  /\ IsTrend(prev) /\ prev.ret = Return(-100)
  /\ IsTrend(last) /\ last.ret = Return(-100)
  /\ prev.arg # last.arg

\* C6: a degenerate input (fewer than 2 numbers, or all identical) makes
\* either function signal DegenerateInputError.
C6_DegenerateSignalled ==
  (last.fn # "none" /\ ~Valid) => last.ret.exc = "DegenerateInputError"

\* What the code does hold to on a degenerate input: it raises.
C6_DegenerateRaises ==
  (last.fn # "none" /\ ~Valid) =>
    last.ret.exc \in {"ZeroDivisionError", "ValueError"}

Apply(c, s) ==
  IF IsTrend(c) THEN trend_score(s, c.arg) ELSE mean_rev_score(s, c.arg)

\* C7: the result on a list with NaN entries is the result on the compacted
\* list, wherever the NaN entries were.
C7_NaNCompaction ==
  last.fn # "none" => last.ret = Apply(last, Compacted(x))

\* A NaN between two numbers, a non-zero trend score and a mean-reversion
\* score.
C7_Witness ==
  /\ \E i, j, k \in 1..Len(x) : i < j /\ j < k /\ ~x[i].nan /\ x[j].nan /\ ~x[k].nan
  /\ IsTrend(prev) /\ Returned(prev.ret) /\ prev.ret.val # 0
  /\ IsMeanRev(last) /\ Returned(last.ret) /\ last.ret.val \in 1..99

Ks == 1..Len(Log2Thresholds)

\* The k for which the magnitude before rounding of the latest call is
\* exactly k - 1/2 (none, or one).
TiePoints ==
  IF ~Valid THEN {}
  ELSE IF IsTrend(last)
    THEN LET pa == Pow(PearsonSquared.num, last.arg)
             qa == Pow(PearsonSquared.den, last.arg)
         IN {k \in Ks : Halfway(k, pa, qa)}
  ELSE IF IsMeanRev(last)
    THEN LET e == RawExponent(last.arg)
         IN {k \in Ks : HalfwayPow2(k, e)}
  ELSE {}

\* C8 as stated: a tie is rounded away from zero, k - 1/2 to k.
C8_TiesAwayFromZero ==
  \A k \in TiePoints : Returned(last.ret) /\ Abs(last.ret.val) = k

\* C8 as amended: a tie is rounded to the even neighbour, 12.5 to 12 and
\* -12.5 to -12; mean_rev_score([0,2,1]) with the default beta is 12.
C8_TiesToEven ==
  /\ \A k \in TiePoints :
       /\ Returned(last.ret)
       /\ Abs(last.ret.val) \in {k - 1, k}
       /\ last.ret.val % 2 = 0
  /\ (x = Nums(<<0, 2, 1>>) /\ IsMeanRev(last) /\ last.arg = DefaultBeta) =>
       (TiePoints = {13} /\ last.ret = Return(12))

\* A trend tie at -12.5 and then the mean-reversion tie at 12.5.
C8_Witness ==
  /\ IsTrend(prev) /\ prev.arg = DefaultAlpha /\ prev.ret = Return(-12)
  /\ IsMeanRev(last) /\ TiePoints = {13} /\ last.ret = Return(12)

\* C9: a larger alpha never gives a larger magnitude, nor the other sign.
C9_AlphaCompresses ==
  (IsTrend(prev) /\ IsTrend(last) /\ Valid /\ prev.arg <= last.arg) =>
    /\ Returned(prev.ret) /\ Returned(last.ret)
    /\ Abs(last.ret.val) <= Abs(prev.ret.val)
    /\ last.ret.val = 0 \/ sign(last.ret.val) = sign(prev.ret.val)

\* A negative score strictly compressed from alpha 1 to alpha 3.
C9_Witness ==
  /\ IsTrend(prev) /\ prev.arg = 1 /\ Returned(prev.ret)
  /\ IsTrend(last) /\ last.arg = 3 /\ Returned(last.ret)
  /\ prev.ret.val < last.ret.val /\ last.ret.val < 0

\* C10: no call changes the caller's list, and a call repeated on it
\* returns the same result.
C10_NoMutation ==
  [][/\ x' = x
     /\ (last'.fn = last.fn /\ last'.arg = last.arg) => last'.ret = last.ret]_vars

\* A call repeated on a list that still holds its NaN entries.
C10_Witness ==
  /\ HasNaN
  /\ last.fn # "none"
  /\ prev.fn = last.fn /\ prev.arg = last.arg
  /\ Returned(last.ret) /\ prev.ret = last.ret

=============================================================================
